---- MODULE Spec2Model ----
(***************************************************************************)
(* A model of the ZNC alarm/timer module (alarm.cpp): the duration parser, *)
(* the Timer record, the CAlarm command handlers add_timer, remove_timer   *)
(* and list_timers, the background thread running loopFunc, and the        *)
(* destructor that stops it.                                               *)
(*                                                                         *)
(* Texts are sequences of one-character strings.  Time is time(0) in whole *)
(* seconds.  The command handlers run on one thread and hold mutex_ for    *)
(* their whole body, so each is one action enabled when mutex_ is free;    *)
(* the loop thread is split at every point where it can be interleaved.    *)
(***************************************************************************)
EXTENDS Integers, Sequences, FiniteSets, TLC

VARIABLES
    now,          \* time(0)
    timer_list_,  \* CAlarm::timer_list_, a sequence of Timer records
    timer_id_,    \* CAlarm::timer_id_
    check_loop_,  \* CAlarm::check_loop_
    mutex_,       \* CAlarm::mutex_ : "free" or "loop" (handlers are atomic)
    pc,           \* position of the thread t1_ inside loopFunc
    wait_kind,    \* which wait of loopFunc was entered: "none", "untimed", "timed"
    deadline,     \* absolute time at which the armed wait_for times out
    dtor,         \* position of the command thread inside ~CAlarm
    out,          \* what the step just taken, if a command handler, passed to PutModule
    emitted,      \* the "Timer expired" notifications of the loop, in order
    removed,      \* ids erased by remove_timer
    bogus         \* the loop died after writing a notification for no timer

vars == <<now, timer_list_, timer_id_, check_loop_, mutex_, pc, wait_kind,
          deadline, dtor, out, emitted, removed, bogus>>

-----------------------------------------------------------------------------
(* Bounds of the model *)

MaxTime == 2        \* time(0) runs over 0..MaxTime
MaxAdds == 2        \* successful constructions of a Timer in one run

(* Program constants *)

timer_limit_ == 16
REASON_LENGTH_MAX == 512
IdDigits == 5           \* the {1,5} of the regex in remove_timer
LabelOffset == 4        \* first argument of substr in Timer::Timer

-----------------------------------------------------------------------------
(* Characters and texts *)

Digit == {"0", "1", "2", "3", "4", "5", "6", "7", "8", "9"}

DigitVal(c) ==
    CASE c = "0" -> 0 [] c = "1" -> 1 [] c = "2" -> 2 [] c = "3" -> 3
      [] c = "4" -> 4 [] c = "5" -> 5 [] c = "6" -> 6 [] c = "7" -> 7
      [] c = "8" -> 8 [] c = "9" -> 9

(* stoll / stoi of a sequence of digits *)
RECURSIVE stoll(_)
stoll(ds) ==
    IF ds = <<>> THEN 0
    ELSE 10 * stoll(SubSeq(ds, 1, Len(ds) - 1)) + DigitVal(ds[Len(ds)])

IsDigitAt(s, i) == i >= 1 /\ i <= Len(s) /\ s[i] \in Digit

(* The longest run of at most n digits of s that starts at i and is
   followed by the character u (a regex match of [0-9]{1,n}u at i);
   0 when there is none.  The regex is greedy, but at a given start only
   one length can be followed by u. *)
MatchLenAt(s, i, n, u) ==
    LET ok(k) == /\ i + k <= Len(s)
                 /\ \A j \in i..(i + k - 1) : s[j] \in Digit
                 /\ s[i + k] = u
        ks == {k \in 1..n : ok(k)}
    IN  IF ks = {} THEN 0 ELSE CHOOSE k \in ks : \A l \in ks : l <= k

UnitMatchAtFirstDigit(s, n, u) ==
    LET starts == {i \in 1..Len(s) : s[i] \in Digit}
    IN  IF starts = {} THEN <<>>
        ELSE LET i == CHOOSE a \in starts : \A b \in starts : a <= b
             IN  SubSeq(s, i, i + MatchLenAt(s, i, n, u) - 1)

(* regex_search(s, match, regex("([0-9]{1,n})u")): the leftmost match;
   the captured digits, or <<>> when the search fails *)
UnitMatch(s, n, u) ==
    LET starts == {i \in 1..Len(s) : MatchLenAt(s, i, n, u) > 0}
    IN  IF starts = {} THEN <<>>
        ELSE LET i == CHOOSE a \in starts : \A b \in starts : a <= b
             IN  SubSeq(s, i, i + MatchLenAt(s, i, n, u) - 1)

UnitSecs(s, n, u, factor) ==
    LET m == UnitMatch(s, n, u) IN IF m = <<>> THEN 0 ELSE stoll(m) * factor

secs_from_string(sLine) ==
      UnitSecs(sLine, 2, "s", 1)
    + UnitSecs(sLine, 2, "m", 60)
    + UnitSecs(sLine, 2, "h", 3600)
    + UnitSecs(sLine, 3, "d", 86400)

(* the / of two long long: the quotient is truncated towards zero *)
quot(a, b) == IF a >= 0 THEN a \div b ELSE -((-a) \div b)

DigitChar(d) ==
    CASE d = 0 -> "0" [] d = 1 -> "1" [] d = 2 -> "2" [] d = 3 -> "3"
      [] d = 4 -> "4" [] d = 5 -> "5" [] d = 6 -> "6" [] d = 7 -> "7"
      [] d = 8 -> "8" [] d = 9 -> "9"

RECURSIVE nat_string(_)
nat_string(n) ==
    IF n < 10 THEN <<DigitChar(n)>>
    ELSE Append(nat_string(n \div 10), DigitChar(n % 10))

(* std::to_string of a long long: a minus sign before a negative value *)
to_string(n) == IF n < 0 THEN <<"-">> \o nat_string(-n) ELSE nat_string(n)

(* parser::string_from_secs *)
string_from_secs(endTime) ==
    LET rest0 == endTime - now
        hours == quot(rest0, 3600)
        rest1 == rest0 - hours * 3600
        minutes == quot(rest1, 60)
        seconds == rest1 - minutes * 60
        minutesString == IF minutes < 10 THEN <<"0">> \o to_string(minutes)
                         ELSE to_string(minutes)
        secondsString == IF seconds < 10 THEN <<"0">> \o to_string(seconds)
                         ELSE to_string(seconds)
    IN  to_string(hours) \o <<":">> \o minutesString \o <<":">> \o secondsString

(* sLine.substr(4, reason_length) for a line of at least 4 characters *)
reason_of(sLine) ==
    LET reason_length == IF Len(sLine) > REASON_LENGTH_MAX
                         THEN REASON_LENGTH_MAX ELSE Len(sLine) - 1
        last == IF LabelOffset + reason_length < Len(sLine)
                THEN LabelOffset + reason_length ELSE Len(sLine)
    IN  SubSeq(sLine, LabelOffset + 1, last)

(* substr throws std::out_of_range when its position is past the end *)
ctor_throws(sLine) == LabelOffset > Len(sLine)

(* Timer::Timer (start_time_ is written and never read by the module) *)
Timer(sLine, id) ==
    [id |-> id, end |-> secs_from_string(sLine) + now, reason |-> reason_of(sLine)]

ran_out_always(t) == TRUE

(* Timer::timer_ran_out *)
timer_ran_out(t) == now >= t.end

-----------------------------------------------------------------------------
(* regex_search(sLine, match_id, "([0-9]{1,5})") and stoi in remove_timer:
   the leftmost digit, and the digits that follow it, at most five in all *)
IdMatch(sLine) ==
    LET starts == {i \in 1..Len(sLine) : sLine[i] \in Digit}
    IN  IF starts = {} THEN <<>>
        ELSE LET i == CHOOSE a \in starts : \A b \in starts : a <= b
                 ks == {k \in 1..IdDigits :
                           \A j \in i..(i + k - 1) : IsDigitAt(sLine, j)}
                 k == CHOOSE a \in ks : \A b \in ks : b <= a
             IN  SubSeq(sLine, i, i + k - 1)

remove_id(sLine) ==
    IF IdMatch(sLine) = <<>> THEN timer_limit_ ELSE stoll(IdMatch(sLine))

-----------------------------------------------------------------------------
(* std::list::sort with the comparator a.end < b.end: a stable sort *)

BeforeOrEqual(a, b) == a.end <= b.end

Before(a, b) == a.end < b.end

RECURSIVE InsertSorted(_, _)
InsertSorted(s, t) ==
    IF s = <<>> THEN <<t>>
    ELSE IF Before(t, s[Len(s)]) THEN Append(InsertSorted(SubSeq(s, 1, Len(s) - 1), t), s[Len(s)])
         ELSE Append(s, t)

no_sort(s) == s

RECURSIVE sort_timers(_)
sort_timers(s) ==
    IF s = <<>> THEN <<>>
    ELSE InsertSorted(sort_timers(SubSeq(s, 1, Len(s) - 1)), s[Len(s)])

(* the position of the first timer with this id, 0 when there is none *)
Find(s, id) ==
    LET hits == {i \in 1..Len(s) : s[i].id = id}
    IN  IF hits = {} THEN 0 ELSE CHOOSE i \in hits : \A j \in hits : i <= j

EraseFront(s, i) == Tail(s)

Erase(s, i) == SubSeq(s, 1, i - 1) \o SubSeq(s, i + 1, Len(s))

NotNotified(p) == p

(* cv_.notify_all(): a thread blocked in cv_.wait or cv_.wait_for is woken *)
Notified(p) == IF p = "wait" THEN "reacquire" ELSE p

-----------------------------------------------------------------------------
(* Inputs *)

AddTexts ==
    { <<"a","d","d"," ","1","s"," ","b">>,
      <<"a","d","d"," ","2","s"," ","c">>,
      <<"a","d","d"," ","x">>,
      <<"a","d","d">> }

RemoveTexts ==
    { <<"r","m">>,
      <<"r","m"," ","1">>, <<"r","m"," ","2">>, <<"r","m"," ","3">>,
      <<"r","m"," ","4">>, <<"r","m"," ","0","2">>,
      <<"r","m"," ","1","0","0","0","0","2">> }

Init ==
    /\ now = 0
    /\ timer_list_ = <<>>
    /\ timer_id_ = 0
    /\ check_loop_ = TRUE
    /\ mutex_ = "free"
    /\ pc = "check"
    /\ wait_kind = "none"
    /\ deadline = 0
    /\ dtor = "alive"
    /\ out = ""
    /\ emitted = <<>>
    /\ removed = {}
    /\ bogus = FALSE

-----------------------------------------------------------------------------
(* The process is alive until the loop thread runs into the crash outcome
   of its undefined read (a fatal signal ends the whole process). *)
Alive == pc # "crashed"

CommandWithoutLock == Alive /\ dtor = "alive"

(* lock_guard<mutex> lock ( mutex_ ) of a command handler: the handler
   runs once it has the mutex *)
CommandReady == Alive /\ dtor = "alive" /\ mutex_ = "free"

id_from_size == Len(timer_list_) + 1

(* ++timer_id_ (an unsigned int: it wraps after 2^32 - 1, far past the
   ids of a bounded run and past the integers of the model checker) *)
next_id == timer_id_ + 1

over_capacity == Len(timer_list_) > timer_limit_

(* timer_list_.size() >= timer_limit_ *)
at_capacity == Len(timer_list_) >= timer_limit_

(* CAlarm::add_timer *)
add_timer(sLine) ==
    /\ CommandReady
    /\ IF at_capacity
       THEN /\ out' = "Too many timers running, can't create a new one."
            /\ UNCHANGED <<timer_list_, timer_id_, pc>>
       ELSE /\ timer_id_' = next_id
            /\ IF ctor_throws(sLine)
               THEN \* emplace_back unwinds: no element, no PutModule, no notify;
                    \* the exception leaves add_timer for the host
                    /\ out' = "std::out_of_range"
                    /\ UNCHANGED <<timer_list_, pc>>
               ELSE /\ timer_list_' =
                          sort_timers(Append(timer_list_, Timer(sLine, next_id)))
                    /\ out' = "Timer added."
                    /\ pc' = Notified(pc)
    /\ UNCHANGED <<now, check_loop_, mutex_, wait_kind, deadline, dtor,
                   emitted, removed, bogus>>

(* CAlarm::remove_timer *)
remove_timer(sLine) ==
    /\ CommandReady
    /\ LET id == remove_id(sLine)
           i == Find(timer_list_, id)
       IN  IF i > 0
           THEN /\ timer_list_' = Erase(timer_list_, i)
                /\ removed' = removed \cup {id}
                /\ out' = "Removed the timer."
           ELSE /\ out' = "Timer doesn't exist."
                /\ UNCHANGED <<timer_list_, removed>>
    /\ UNCHANGED <<now, timer_id_, check_loop_, mutex_, pc, wait_kind, deadline,
                   dtor, emitted, bogus>>

(* the lines list_timers writes for the timers, one entry per timer in
   store order; rest is the remaining time that string_from_secs renders
   and expires its rendering after "Expires in: " *)
list_lines ==
    [i \in 1..Len(timer_list_) |->
        [id |-> timer_list_[i].id,
         reason |-> timer_list_[i].reason,
         rest |-> timer_list_[i].end - now,
         expires |-> string_from_secs(timer_list_[i].end)]]

(* CAlarm::list_timers *)
list_timers ==
    /\ CommandReady
    /\ out' = IF timer_list_ = <<>>
              THEN "There are no timers running at the moment."
              ELSE "Timer:"
    /\ UNCHANGED <<now, timer_list_, timer_id_, check_loop_, mutex_, pc,
                   wait_kind, deadline, dtor, emitted, removed, bogus>>

-----------------------------------------------------------------------------
(* a step that is not a command handler passes nothing to PutModule on the
   command thread *)
Silent == out' = ""

(* CAlarm::loopFunc, run by the thread t1_ *)

(* while ( check_loop_ ): the flag is a plain bool read without the mutex
   while the destructor may write it; the read yields the old or the new
   value, which is the order of this step and DtorStop *)
LoopCheck ==
    /\ Silent
    /\ pc = "check"
    /\ pc' = IF check_loop_ THEN "lock" ELSE "done"
    /\ UNCHANGED <<now, timer_list_, timer_id_, check_loop_, mutex_, wait_kind,
                   deadline, dtor, emitted, removed, bogus>>

(* std::unique_lock<std::mutex> lock(mutex_) *)
LoopLock ==
    /\ Silent
    /\ pc = "lock"
    /\ mutex_ = "free"
    /\ mutex_' = "loop"
    /\ pc' = "locked"
    /\ UNCHANGED <<now, timer_list_, timer_id_, check_loop_, wait_kind,
                   deadline, dtor, emitted, removed, bogus>>

armed_a_second_at_least(d) == now + (IF d <= 0 THEN 1 ELSE d)

(* the time at which cv_.wait_for(lock, seconds(d)) entered now times out;
   d may be zero or negative, the time is then not in the future *)
armed(d) == now + d

(* entering cv_.wait or cv_.wait_for releases the mutex *)
LoopWait ==
    /\ Silent
    /\ pc = "locked"
    /\ IF timer_list_ = <<>>
       THEN wait_kind' = "untimed" /\ deadline' = 0
       ELSE wait_kind' = "timed" /\ deadline' = armed(Head(timer_list_).end - now)
    /\ mutex_' = "free"
    /\ pc' = "wait"
    /\ UNCHANGED <<now, timer_list_, timer_id_, check_loop_, dtor,
                   emitted, removed, bogus>>

(* wait_for times out *)
LoopTimeout ==
    /\ Silent
    /\ pc = "wait"
    /\ wait_kind = "timed"
    /\ now >= deadline
    /\ pc' = "reacquire"
    /\ UNCHANGED <<now, timer_list_, timer_id_, check_loop_, mutex_, wait_kind,
                   deadline, dtor, emitted, removed, bogus>>

(* a condition variable may wake spuriously *)
LoopSpurious ==
    /\ Silent
    /\ pc = "wait"
    /\ pc' = "reacquire"
    /\ UNCHANGED <<now, timer_list_, timer_id_, check_loop_, mutex_, wait_kind,
                   deadline, dtor, emitted, removed, bogus>>

(* the wait reacquires the mutex before it returns *)
LoopReacquire ==
    /\ Silent
    /\ pc = "reacquire"
    /\ mutex_ = "free"
    /\ mutex_' = "loop"
    /\ pc' = "awake"
    /\ UNCHANGED <<now, timer_list_, timer_id_, check_loop_, wait_kind,
                   deadline, dtor, emitted, removed, bogus>>

EndIteration ==
    /\ mutex_' = "free"
    /\ wait_kind' = "none"
    /\ deadline' = 0
    /\ pc' = "check"

(* the rest of the iteration after the wait returned: nothing after
   cv_.wait; after cv_.wait_for the test of timer_list_.front() *)
LoopAfterWait ==
    /\ Silent
    /\ pc = "awake"
    /\ \/ /\ wait_kind = "untimed"
          /\ EndIteration
          /\ UNCHANGED <<timer_list_, emitted, bogus>>
       \/ /\ wait_kind = "timed"
          /\ timer_list_ # <<>>
          /\ IF timer_ran_out(Head(timer_list_))
             THEN /\ emitted' = Append(emitted,
                         [id |-> Head(timer_list_).id,
                          end |-> Head(timer_list_).end,
                          reason |-> Head(timer_list_).reason])
                  /\ timer_list_' = Tail(timer_list_)
             ELSE UNCHANGED <<timer_list_, emitted>>
          /\ EndIteration
          /\ UNCHANGED bogus
       \/ \* front() of an empty std::list is undefined: the bytes read as
          \* end_time_ say "not run out" and the iteration ends ...
          /\ wait_kind = "timed"
          /\ timer_list_ = <<>>
          /\ EndIteration
          /\ UNCHANGED <<timer_list_, emitted, bogus>>
       \/ \* ... or they say "run out": the label is read from the same
          \* bytes and pop_front unlinks the list head; the process dies,
          \* with or without a notification written first
          /\ wait_kind = "timed"
          /\ timer_list_ = <<>>
          /\ pc' = "crashed"
          /\ bogus' \in BOOLEAN
          /\ UNCHANGED <<timer_list_, emitted, mutex_, wait_kind, deadline>>
    /\ UNCHANGED <<now, timer_id_, check_loop_, dtor, removed>>

-----------------------------------------------------------------------------
(* CAlarm::~CAlarm, run by the command thread; it never takes mutex_ *)

DtorStop ==
    /\ Silent
    /\ Alive
    /\ dtor = "alive"
    /\ check_loop_' = FALSE
    /\ dtor' = "notify"
    /\ UNCHANGED <<now, timer_list_, timer_id_, mutex_, pc, wait_kind, deadline,
                   emitted, removed, bogus>>

DtorNotify ==
    /\ Silent
    /\ Alive
    /\ dtor = "notify"
    /\ pc' = Notified(pc)
    /\ dtor' = "join"
    /\ UNCHANGED <<now, timer_list_, timer_id_, check_loop_, mutex_, wait_kind,
                   deadline, emitted, removed, bogus>>

(* t1_.join() returns once loopFunc has returned *)
DtorJoin ==
    /\ Silent
    /\ dtor = "join"
    /\ pc = "done"
    /\ dtor' = "joined"
    /\ UNCHANGED <<now, timer_list_, timer_id_, check_loop_, mutex_, pc,
                   wait_kind, deadline, emitted, removed, bogus>>

(* one second passes *)
Tick ==
    /\ Silent
    /\ Alive
    /\ now < MaxTime
    /\ now' = now + 1
    /\ UNCHANGED <<timer_list_, timer_id_, check_loop_, mutex_, pc, wait_kind,
                   deadline, dtor, emitted, removed, bogus>>

(* Not part of the program: an add that is not rejected is offered only
   while fewer than n timers were constructed and its deadline lies within
   the modelled time. *)
WithinBounds(sLine, n) ==
    \/ at_capacity
    \/ /\ timer_id_ < n
       /\ secs_from_string(sLine) + now <= MaxTime

Add == \E sLine \in AddTexts : WithinBounds(sLine, MaxAdds) /\ add_timer(sLine)

Remove == \E sLine \in RemoveTexts : remove_timer(sLine)

Command == Add \/ Remove \/ list_timers

Loop ==
    \/ LoopCheck
    \/ LoopLock
    \/ LoopWait
    \/ LoopTimeout
    \/ LoopSpurious
    \/ LoopReacquire
    \/ LoopAfterWait

Dtor == DtorStop \/ DtorNotify \/ DtorJoin

Next == Command \/ Loop \/ Dtor \/ Tick

Spec == Init /\ [][Next]_vars

-----------------------------------------------------------------------------
(* The same program started from a store that is one short of its limit:
   the state after timer_limit_ - 1 commands "add 2s c" at time 0, before
   the loop thread has run. *)

CapFill == timer_limit_ - 1

CapText == <<"a","d","d"," ","2","s"," ","c">>

InitCap ==
    /\ now = 0
    /\ timer_list_ = [i \in 1..CapFill |-> Timer(CapText, i)]
    /\ timer_id_ = CapFill
    /\ check_loop_ = TRUE
    /\ mutex_ = "free"
    /\ pc = "check"
    /\ wait_kind = "none"
    /\ deadline = 0
    /\ dtor = "alive"
    /\ out = "Timer added."
    /\ emitted = <<>>
    /\ removed = {}
    /\ bogus = FALSE

CapRemoveTexts ==
    { <<"r","m">>,
      <<"r","m"," ","1">>, <<"r","m"," ","8">>, <<"r","m"," ","1","6">>,
      <<"r","m"," ","1","7">>,
      <<"r","m"," ","9","9">> }

AddCap ==
    \E sLine \in AddTexts :
        WithinBounds(sLine, CapFill + MaxAdds) /\ add_timer(sLine)

RemoveCap == \E sLine \in CapRemoveTexts : remove_timer(sLine)

(* the clock does not advance in these runs: the timers that expire are the
   zero-second ones *)
NextCap == AddCap \/ RemoveCap \/ list_timers \/ Loop \/ Dtor

SpecCap == InitCap /\ [][NextCap]_vars

-----------------------------------------------------------------------------
(* The same program late in a long run: the state after 9999 timers were
   added and each was removed again within the first second, before the
   loop thread has run.  The next timer gets the first id of IdDigits
   digits. *)

RECURSIVE Pow10(_)
Pow10(e) == IF e = 0 THEN 1 ELSE 10 * Pow10(e - 1)

LateStart == Pow10(IdDigits - 1) - 1

InitLate ==
    /\ now = 0
    /\ timer_list_ = <<>>
    /\ timer_id_ = LateStart
    /\ check_loop_ = TRUE
    /\ mutex_ = "free"
    /\ pc = "check"
    /\ wait_kind = "none"
    /\ deadline = 0
    /\ dtor = "alive"
    /\ out = "Removed the timer."
    /\ emitted = <<>>
    /\ removed = 1..LateStart
    /\ bogus = FALSE

LateRemoveTexts ==
    { <<"r","m"," ","1","0","0","0","0">>,
      <<"r","m"," ","1","0","0","0","1">>,
      <<"r","m"," ","1","0","0","0","0","2">> }

AddLate ==
    \E sLine \in AddTexts :
        WithinBounds(sLine, LateStart + MaxAdds) /\ add_timer(sLine)

RemoveLate == \E sLine \in LateRemoveTexts : remove_timer(sLine)

NextLate == AddLate \/ RemoveLate \/ list_timers \/ Loop \/ Dtor \/ Tick

SpecLate == InitLate /\ [][NextLate]_vars

-----------------------------------------------------------------------------
(* The command thread alone, before the loop thread is scheduled and within
   one second: adds whose texts are built from duration tokens, one timer
   in the store at a time, and removals. *)

(* duration tokens: the unit, the text and the number the text stands for *)
Tokens ==
    { [unit |-> "s", text |-> <<"5","s">>, value |-> 5],
      [unit |-> "s", text |-> <<"1","2","s">>, value |-> 12],
      [unit |-> "m", text |-> <<"0","7","m">>, value |-> 7],
      [unit |-> "h", text |-> <<"2","h">>, value |-> 2],
      [unit |-> "d", text |-> <<"3","d">>, value |-> 3],
      [unit |-> "d", text |-> <<"1","2","3","d">>, value |-> 123] }

MaxTokens == 4      \* one token of each unit at most

(* the sequences of tokens with at most one token of each unit *)
TokenSeqs ==
    {q \in UNION {[1..k -> Tokens] : k \in 0..MaxTokens} :
        \A i \in 1..Len(q) : \A j \in 1..Len(q) :
            i # j => q[i].unit # q[j].unit}

(* how the tokens are set in the command text: run together and alone, or
   separated by blanks and followed by a label with the unit letters *)
Layouts ==
    { [sep |-> <<>>, label |-> <<>>],
      [sep |-> <<" ">>, label |-> <<" ","d","a","m","s","h">>] }

RECURSIVE Joined(_, _)
Joined(q, sep) ==
    IF q = <<>> THEN <<>>
    ELSE IF Len(q) = 1 THEN q[1].text
    ELSE q[1].text \o sep \o Joined(Tail(q), sep)

ParseText(q, lay) == <<"a","d","d"," ">> \o Joined(q, lay.sep) \o lay.label

(* Not part of the program: one timer in the store at a time *)
ParseBounds == timer_list_ = <<>> /\ timer_id_ < MaxAdds

AddParse ==
    \E q \in TokenSeqs : \E lay \in Layouts :
        ParseBounds /\ add_timer(ParseText(q, lay))

RemoveParse == \E sLine \in RemoveTexts : remove_timer(sLine)

NextParse == AddParse \/ RemoveParse \/ list_timers

SpecParse == Init /\ [][NextParse]_vars

-----------------------------------------------------------------------------
(* The loop thread, the clock and a destructor that has started cannot stop
   for ever; a spurious wake-up may never come, and no command has to be
   issued. *)
Fairness ==
    /\ WF_vars(LoopCheck)
    /\ WF_vars(LoopLock)
    /\ WF_vars(LoopWait)
    /\ WF_vars(LoopTimeout)
    /\ WF_vars(LoopReacquire)
    /\ WF_vars(LoopAfterWait)
    /\ WF_vars(DtorNotify)
    /\ WF_vars(DtorJoin)
    /\ WF_vars(Tick)

(* the runs checked for liveness: timers of zero and one second, removals
   of the first two ids; list_timers, which changes no state, is left out *)
FairAddTexts ==
    { <<"a","d","d"," ","x">>, <<"a","d","d"," ","1","s"," ","b">> }

FairRemoveTexts == { <<"r","m"," ","1">>, <<"r","m"," ","2">> }

AddFair ==
    \E sLine \in FairAddTexts : WithinBounds(sLine, MaxAdds) /\ add_timer(sLine)

RemoveFair == \E sLine \in FairRemoveTexts : remove_timer(sLine)

NextFair == AddFair \/ RemoveFair \/ Loop \/ Dtor \/ Tick

FairSpec == Init /\ [][NextFair]_vars /\ Fairness

-----------------------------------------------------------------------------
(* Properties *)

EmittedIds == {emitted[i].id : i \in 1..Len(emitted)}
StoreIds == {timer_list_[i].id : i \in 1..Len(timer_list_)}

(* C1: the expiry notifications are emitted in non-decreasing order of
   expiresAt, and of two timers with the same expiresAt the one inserted
   first (the smaller id) is emitted first. *)
C1_EmittedInOrder ==
    \A i \in 1..Len(emitted) : \A j \in 1..Len(emitted) :
        i < j =>
            /\ emitted[i].end <= emitted[j].end
            /\ emitted[i].end = emitted[j].end => emitted[i].id < emitted[j].id

(* two expiries, the first of a timer inserted after the second one's *)
C1_Witness ==
    /\ Len(emitted) = 2
    /\ emitted[1].id > emitted[2].id
    /\ emitted[1].end < emitted[2].end

(* C2: no timer's expiry is emitted twice, none is emitted before the
   timer's expiresAt, and none for a timer that remove_timer erased. *)
C2_EmittedOnceWhenDue ==
    /\ \A i \in 1..Len(emitted) : \A j \in 1..Len(emitted) :
           i # j => emitted[i].id # emitted[j].id
    /\ \A i \in 1..Len(emitted) : emitted[i].end <= now
    /\ EmittedIds \cap removed = {}
    /\ EmittedIds \cap StoreIds = {}

(* an expiry was emitted after an early wake-up: another timer was erased
   while the loop slept, and a third party is not involved *)
C2_Witness ==
    /\ Len(emitted) = 1
    /\ removed # {}
    /\ emitted[1].end = now
    /\ emitted[1].end > 0

(* the ids a run can give to timers *)
Ids == 1..MaxAdds

Served(id) ==
    \/ id \notin StoreIds /\ (id \in EmittedIds \/ id \in removed)
    \/ ~check_loop_

(* C3: while shutdown is not signalled, every timer in the store that is
   not removed by id is eventually emitted and leaves the store; a loop
   idle in the untimed wait goes on to a timed wait once a timer is added;
   and each emission takes the emitted timer out of the store, so the store
   is empty once the last one is emitted. *)
C3_EveryTimerServed ==
    /\ \A id \in Ids :
           (id \in StoreIds) ~> Served(id)
    /\ (wait_kind = "untimed" /\ timer_list_ # <<>>)
           ~> (wait_kind = "timed" \/ timer_list_ = <<>> \/ ~check_loop_)
    /\ [][emitted' # emitted =>
             /\ timer_list_ # <<>>
             /\ timer_list_' = Tail(timer_list_)
             /\ emitted' = Append(emitted,
                    [id |-> Head(timer_list_).id, end |-> Head(timer_list_).end,
                     reason |-> Head(timer_list_).reason])]_vars

(* a timer added while the loop was idle has been emitted, and the store is
   empty again *)
C3_Witness ==
    /\ Len(emitted) = 2
    /\ timer_list_ = <<>>
    /\ removed = {}
    /\ check_loop_
    /\ pc = "wait"
    /\ wait_kind = "untimed"

(* C4: once shutdown is signalled the loop thread ends (here: or the
   process has died of the undefined read of C11). *)
C4_ShutdownTerminates == (~check_loop_) ~> (pc = "done" \/ pc = "crashed")

(* C5: once check_loop_ is false the loop emits nothing and takes no timer
   out of the store (no command runs any more, so only the loop could). *)
C5_NothingAfterStop ==
    [][~check_loop_ => emitted' = emitted /\ timer_list_' = timer_list_]_vars

AnyAdd == \E sLine \in AddTexts : add_timer(sLine)

(* C6: the store never holds more than timer_limit_ timers, and an add
   attempted while it holds timer_limit_ is answered "Too many timers
   running, can't create a new one." and leaves the store and the id
   counter as they were. *)
C6_CapacityRespected ==
    [][/\ Len(timer_list_) <= timer_limit_
       /\ Len(timer_list_') <= timer_limit_
       /\ (Len(timer_list_) = timer_limit_ /\ AnyAdd) =>
              /\ out' = "Too many timers running, can't create a new one."
              /\ timer_list_' = timer_list_
              /\ timer_id_' = timer_id_]_vars

(* an add was rejected at a full store *)
C6_Witness ==
    /\ Len(timer_list_) = timer_limit_
    /\ out = "Too many timers running, can't create a new one."

(* the id a remove text names: its first run of digits, read in full *)
TypedDigits(sLine) ==
    LET starts == {i \in 1..Len(sLine) : sLine[i] \in Digit}
        i == CHOOSE a \in starts : \A b \in starts : a <= b
        ends == {k \in i..Len(sLine) : \A j \in i..k : sLine[j] \in Digit}
        k == CHOOSE a \in ends : \A b \in ends : b <= a
    IN  SubSeq(sLine, i, k)

HasId(sLine) == \E i \in 1..Len(sLine) : sLine[i] \in Digit

WithoutId(s, id) == SelectSeq(s, LAMBDA t : t.id # id)

(* C7: a remove naming an id in the store erases exactly that timer, keeps
   the others in their order and answers "Removed the timer."; a remove
   naming an id not in the store changes nothing and answers "Timer doesn't
   exist." *)
C7_RemoveExactlyThat ==
    [][\A sLine \in RemoveTexts \cup CapRemoveTexts \cup LateRemoveTexts :
          (/\ out' \in {"Removed the timer.", "Timer doesn't exist."}
           /\ HasId(sLine)
           /\ remove_timer(sLine)) =>
              LET id == stoll(TypedDigits(sLine))
              IN  IF id \in StoreIds
                  THEN /\ timer_list_' = WithoutId(timer_list_, id)
                       /\ Len(timer_list_') = Len(timer_list_) - 1
                       /\ out' = "Removed the timer."
                  ELSE /\ timer_list_' = timer_list_
                       /\ out' = "Timer doesn't exist."]_vars

SortedByEnd(s) ==
    \A i \in 1..Len(s) : \A j \in 1..Len(s) : i < j => s[i].end <= s[j].end

(* C8: whenever the mutex is free the store is in non-decreasing order of
   expiresAt, so list_timers reports non-decreasing remaining times and the
   front timer has the smallest expiresAt. *)
C8_StoreSorted ==
    mutex_ = "free" =>
        /\ SortedByEnd(timer_list_)
        /\ \A i \in 1..Len(list_lines) : \A j \in 1..Len(list_lines) :
               i < j => list_lines[i].rest <= list_lines[j].rest
        /\ \A i \in 1..Len(timer_list_) :
               Head(timer_list_).end <= timer_list_[i].end

(* the timer added second stands first, the lock being free *)
C8_Witness ==
    /\ mutex_ = "free"
    /\ Len(timer_list_) = 2
    /\ timer_list_[1].id = 2
    /\ timer_list_[1].end < timer_list_[2].end

(* C9: the id counter starts at 1 and grows with every add that stores a
   timer; a timer that enters the store carries an id above every id given
   before, also after removals and expiries; the ids in the store are
   pairwise distinct. *)
C9_IdsNeverReused ==
    [][/\ \A id \in StoreIds \cup EmittedIds \cup removed :
              1 <= id /\ id <= timer_id_
       /\ \A i \in 1..Len(timer_list_') : \A j \in 1..Len(timer_list_') :
              i # j => timer_list_'[i].id # timer_list_'[j].id
       /\ \A i \in 1..Len(timer_list_') :
              timer_list_'[i].id \notin StoreIds =>
                  /\ timer_list_'[i].id > timer_id_
                  /\ timer_list_'[i].id = timer_id_'
       /\ timer_id_' >= timer_id_
       /\ Len(timer_list_') > Len(timer_list_) => timer_id_' > timer_id_]_vars

(* a timer was added after the first one was erased or had expired *)
C9_Witness ==
    /\ timer_id_ = 2
    /\ StoreIds = {2}
    /\ 1 \in removed \cup EmittedIds

MinEnd == Head(timer_list_).end

(* C10: a loop blocked in a wait with no wake pending is either in the
   untimed wait with the store empty, or in a timed wait whose deadline is
   not after the smallest expiresAt in the store. *)
C10_NeverOversleeps ==
    pc = "wait" =>
        \/ timer_list_ = <<>> /\ wait_kind = "untimed"
        \/ /\ timer_list_ # <<>>
           /\ wait_kind = "timed"
           /\ deadline <= MinEnd

(* C11: the loop never uses the front of an empty store: when a timed wait
   has returned and the loop holds the mutex again, about to test
   timer_list_.front(), the store is not empty, and the loop never dies of
   such a read. *)
C11_FrontOnlyOfNonEmpty ==
    /\ pc # "crashed"
    /\ (pc = "awake" /\ wait_kind = "timed") => timer_list_ # <<>>

(* C12: a remove that erased a timer signals the condition variable: a loop
   blocked in a wait leaves the wait. *)
C12_RemoveNotifies ==
    [][out' = "Removed the timer." => pc' = Notified(pc)]_vars

(* C13: the loop emits one expiry per iteration and ends the iteration with
   it; a timed wait on a front timer that is overdue has a deadline that is
   not in the future, so it times out at once; and the timers that are in
   the store when the clock has stopped advancing, all of them overdue, are
   all emitted (or removed) with no time passing. *)
C13_DrainsOverdueAtOnce ==
    /\ [](pc = "wait" /\ wait_kind = "timed" /\ timer_list_ # <<>>
              /\ Head(timer_list_).end <= now
            => deadline <= now /\ ENABLED LoopTimeout)
    /\ [][emitted' # emitted =>
             /\ Len(emitted') = Len(emitted) + 1
             /\ Len(timer_list_') = Len(timer_list_) - 1
             /\ pc = "awake" /\ pc' = "check" /\ mutex_' = "free"]_vars
    /\ \A id \in Ids :
           (id \in StoreIds /\ now = MaxTime) ~> Served(id)

(* of two timers overdue at the same time one was emitted, and the loop has
   armed its next wait on the other with a negative remaining time *)
C13_Witness ==
    /\ pc = "wait"
    /\ wait_kind = "timed"
    /\ Len(emitted) = 1
    /\ timer_list_ # <<>>
    /\ Head(timer_list_).end = emitted[1].end
    /\ deadline < now

(* C14: the loop holds the mutex exactly between taking it and entering a
   wait and between the return of a wait and the end of the iteration, so
   not while it is blocked; the store changes only in a command handler
   that found the mutex free or in the loop holding it; while the loop is
   blocked every command can run to its end; and as long as the process
   runs and is not being shut down, whoever holds the mutex can go on. *)
C14_LockDiscipline ==
    /\ [](Alive => (mutex_ = "loop" <=> pc \in {"locked", "awake"}))
    /\ [][timer_list_' # timer_list_ =>
             IF mutex_ = "loop"
             THEN pc = "awake" /\ pc' = "check" /\ mutex_' = "free"
             ELSE /\ out' \in {"Timer added.", "Removed the timer."}
                  /\ mutex_' = "free"]_vars
    /\ []((Alive /\ dtor = "alive" /\ pc \in {"wait", "reacquire"}) =>
             /\ ENABLED list_timers
             /\ ENABLED AnyAdd
             /\ ENABLED Remove)
    /\ []((Alive /\ dtor = "alive") =>
             IF mutex_ = "loop" THEN ENABLED (LoopWait \/ LoopAfterWait)
             ELSE ENABLED list_timers)

(* list_timers has run while the loop was blocked on a deadline that is
   still ahead *)
C14_Witness ==
    /\ pc = "wait"
    /\ wait_kind = "timed"
    /\ deadline > now
    /\ out = "Timer:"

(* C15: a remove whose text has no digit erases nothing and answers "Timer
   doesn't exist.", whatever ids are in the store. *)
C15_RemoveWithoutIdRemovesNothing ==
    [][\A sLine \in RemoveTexts \cup CapRemoveTexts :
          (/\ out' \in {"Removed the timer.", "Timer doesn't exist."}
           /\ ~HasId(sLine)
           /\ remove_timer(sLine)) =>
              /\ timer_list_' = timer_list_
              /\ out' = "Timer doesn't exist."]_vars

(* line is H:MM:SS for the remaining time r: H the hours of r without
   padding, then two digits of minutes and two digits of seconds *)
IsHMMSS(line, r) ==
    LET n == Len(line)
    IN  /\ n >= 7
        /\ line[n - 2] = ":" /\ line[n - 5] = ":"
        /\ \A k \in {n - 4, n - 3, n - 1, n} : line[k] \in Digit
        /\ \A k \in 1..(n - 6) : line[k] \in Digit
        /\ stoll(SubSeq(line, 1, n - 6)) = r \div 3600
        /\ (n - 6 > 1 => line[1] # "0")
        /\ stoll(SubSeq(line, n - 4, n - 3)) = (r % 3600) \div 60
        /\ stoll(SubSeq(line, n - 1, n)) = r % 60

(* C16: whenever list_timers can run, the "Expires in:" text of every timer
   in the store is H:MM:SS of its remaining time expiresAt - now, also for
   a timer whose deadline has passed and which the loop has not popped. *)
C16_ExpiresInWellFormed ==
    CommandReady =>
        \A i \in 1..Len(list_lines) :
            IsHMMSS(list_lines[i].expires, list_lines[i].rest)

Factor(u) ==
    CASE u = "s" -> 1 [] u = "m" -> 60 [] u = "h" -> 3600 [] u = "d" -> 86400

RECURSIVE SumOfTokens(_)
SumOfTokens(q) ==
    IF q = <<>> THEN 0
    ELSE Head(q).value * Factor(Head(q).unit) + SumOfTokens(Tail(q))

(* every text of tokens, as the label a timer made from it carries, with
   the seconds its tokens add up to *)
ParseCases ==
    {[reason |-> reason_of(ParseText(q, lay)), sum |-> SumOfTokens(q)] :
        q \in TokenSeqs, lay \in Layouts}

(* C17: a timer made from a text with at most one token of each unit, in
   whatever order, ends value * factor seconds, summed over its tokens,
   after it was made (0 seconds for a text without a token). *)
C17_ParseSumsUnits ==
    \A i \in 1..Len(timer_list_) :
        /\ \E c \in ParseCases : c.reason = timer_list_[i].reason
        /\ \A c \in ParseCases :
               c.reason = timer_list_[i].reason =>
                   timer_list_[i].end = now + c.sum

(* a timer made from "add 2h 123d 12s 07m damsh": the tokens of all four
   units, not in the order in which the parser looks for them *)
C17_Witness ==
    /\ Len(timer_list_) = 1
    /\ timer_list_[1].reason =
           <<"2","h"," ","1","2","3","d"," ","1","2","s"," ","0","7","m",
             " ","d","a","m","s","h">>
    /\ timer_list_[1].end = 12 + 7 * 60 + 2 * 3600 + 123 * 86400

(* C18: no add ends in an error, whatever its text: an add either stores a
   timer and answers "Timer added." or is rejected at capacity, and the id
   counter advances only together with a timer entering the store. *)
C18_AddRaisesNoError ==
    [][/\ out' # "std::out_of_range"
       /\ timer_id_' # timer_id_ =>
              /\ Len(timer_list_') = Len(timer_list_) + 1
              /\ out' = "Timer added."]_vars

====
